---- MODULE Spec2Model ----
(***************************************************************************)
(* A model of notion_tools.py: the property-value normalizer               *)
(* (_simplify_notion_property_value), the record flattener                 *)
(* (_page_to_simple_dict, _user_to_simple_dict) and the two paginated      *)
(* extractions (database_to_dataframe, users_to_dataframe).                *)
(*                                                                         *)
(* Python values are tagged records, so that values of different Python    *)
(* types can be compared:  None, str, number, bool, list, dict, tuple,     *)
(* pandas Timestamp / NaT.  A raised exception is the value                *)
(* [k |-> "raise", exc, msg]; it propagates through every caller.          *)
(***************************************************************************)
EXTENDS Integers, Sequences, FiniteSets, TLC

VARIABLES
    value, ret,                      \* normalizer: the argument and what the call produced
    page, handler_default, handler_map, record,   \* flattener: arguments and result
    fn, pc, schema, source, default_date_handler, date_handlers,
    response, results, fetches, outcome           \* one extraction run

vars == <<value, ret, page, handler_default, handler_map, record,
          fn, pc, schema, source, default_date_handler, date_handlers,
          response, results, fetches, outcome>>

normVars == <<value, ret>>
flatVars == <<page, handler_default, handler_map, record>>
runVars  == <<fn, pc, schema, source, default_date_handler, date_handlers,
              response, results, fetches, outcome>>

(***************************************************************************)
(* Bounds of the model.                                                    *)
(***************************************************************************)
MaxArray == 3        \* longest rollup array
MaxProps == 2        \* most properties on one page
MaxPages == 3        \* most responses a paged source gives
MaxPageSize == 2     \* most items in one response

(***************************************************************************)
(* Python values.                                                          *)
(***************************************************************************)
None_ == [k |-> "none"]
Str(s) == [k |-> "str", v |-> s]
Num(n) == [k |-> "num", v |-> n]
Bool(b) == [k |-> "bool", v |-> b]
List(s) == [k |-> "list", v |-> s]
Dict(f) == [k |-> "dict", v |-> f]
Tuple(s) == [k |-> "tuple", v |-> s]
NaT == [k |-> "nat"]
Raise(exc, msg) == [k |-> "raise", exc |-> exc, msg |-> msg]
IsRaise(x) == x.k = "raise"

\* the call has not returned yet
Pending == [k |-> "pending"]

\* d[key] of a Python dict: KeyError when the key is missing, TypeError when
\* d is None (or anything else that is not subscriptable by a string)
GetItem(d, key) ==
    IF d.k = "raise" THEN d
    ELSE IF d.k # "dict" THEN Raise("TypeError", "not subscriptable")
    ELSE IF key \in DOMAIN d.v THEN d.v[key]
    ELSE Raise("KeyError", key)

\* t[i] of a Python tuple or list, i counted from 0
Index(t, i) ==
    IF t.k = "raise" THEN t
    ELSE IF t.k \notin {"tuple", "list"} THEN Raise("TypeError", "not subscriptable")
    ELSE IF i + 1 \in 1..Len(t.v) THEN t.v[i + 1]
    ELSE Raise("IndexError", "index out of range")

\* d.get(key): None when the key is missing
GetOrNone(d, key) ==
    IF key \in DOMAIN d.v THEN d.v[key] ELSE None_

\* bool(x)
Truthy(x) ==
    CASE x.k = "none" -> FALSE
      [] x.k = "bool" -> x.v
      [] x.k = "num"  -> x.v # 0
      [] x.k = "str"  -> x.v # ""
      [] x.k = "list" -> Len(x.v) > 0
      [] x.k = "dict" -> DOMAIN x.v # {}
      [] OTHER -> TRUE

\* the first raised exception of a sequence of results, else the list of them
ListOrRaise(rs) ==
    IF \E i \in 1..Len(rs) : IsRaise(rs[i])
    THEN rs[CHOOSE i \in 1..Len(rs) :
                /\ IsRaise(rs[i])
                /\ \A j \in 1..(i - 1) : ~IsRaise(rs[j])]
    ELSE List(rs)

(***************************************************************************)
(* str.strip() and " ".join(...)                                           *)
(***************************************************************************)
Whitespace == {" ", "\t"}

RECURSIVE LStrip(_)
LStrip(s) ==
    IF Len(s) > 0 /\ SubSeq(s, 1, 1) \in Whitespace
    THEN LStrip(SubSeq(s, 2, Len(s)))
    ELSE s

RECURSIVE RStrip(_)
RStrip(s) ==
    IF Len(s) > 0 /\ SubSeq(s, Len(s), Len(s)) \in Whitespace
    THEN RStrip(SubSeq(s, 1, Len(s) - 1))
    ELSE s

Strip(s) == RStrip(LStrip(s))

RECURSIVE Join(_, _)
Join(sep, ss) ==
    IF Len(ss) = 0 THEN ""
    ELSE IF Len(ss) = 1 THEN ss[1]
    ELSE ss[1] \o sep \o Join(sep, Tail(ss))

(***************************************************************************)
(* pd.Timestamp(x): None parses to NaT, an ISO date "YYYY-MM-DD" (with an  *)
(* optional midnight time part) to the day it names.                       *)
(***************************************************************************)
Digit(c) ==
    CASE c = "0" -> 0 [] c = "1" -> 1 [] c = "2" -> 2 [] c = "3" -> 3
      [] c = "4" -> 4 [] c = "5" -> 5 [] c = "6" -> 6 [] c = "7" -> 7
      [] c = "8" -> 8 [] c = "9" -> 9

RECURSIVE ParseInt(_)
ParseInt(s) ==
    IF Len(s) = 0 THEN 0
    ELSE 10 * ParseInt(SubSeq(s, 1, Len(s) - 1)) + Digit(SubSeq(s, Len(s), Len(s)))

Timestamp(x) ==
    IF x.k = "raise" THEN x
    ELSE IF x = None_ THEN NaT
    ELSE [k |-> "ts",
          year  |-> ParseInt(SubSeq(x.v, 1, 4)),
          month |-> ParseInt(SubSeq(x.v, 6, 7)),
          day   |-> ParseInt(SubSeq(x.v, 9, 10))]

(***************************************************************************)
(* _simplify_notion_property_value                                         *)
(***************************************************************************)
\* a type-tagged property value {"type": t, t: payload}
Prop(t, payload) == Dict(("type" :> Str(t)) @@ (t :> payload))

Passthrough == {"url", "email", "phone_number", "number",
                "created_time", "last_edited_time"}

SupportedTypes == Passthrough \cup
    {"relation", "checkbox", "date", "created_by", "last_edited_by", "select",
     "multi_select", "people", "files", "title", "rich_text", "formula", "rollup"}

\* [F(x) for x in obj]: TypeError when obj is not a list
Comprehension(obj, rs) ==
    IF obj.k # "list" THEN Raise("TypeError", "not iterable") ELSE ListOrRaise(rs)

\* [v["id"] for v in obj]
SimplifyRelation(obj) ==
    Comprehension(obj, [i \in 1..Len(obj.v) |-> GetItem(obj.v[i], "id")])

\* (pd.Timestamp(obj["start"]), pd.Timestamp(obj["end"]))
SimplifyDate(obj) ==
    LET start == Timestamp(GetItem(obj, "start"))
        end   == Timestamp(GetItem(obj, "end"))
    IN  IF IsRaise(start) THEN start
        ELSE IF IsRaise(end) THEN end
        ELSE Tuple(<<start, end>>)

\* [x["name"] for x in obj]
SimplifyMultiSelect(obj) ==
    Comprehension(obj, [i \in 1..Len(obj.v) |-> GetItem(obj.v[i], "name")])

\* [x["name"] for x in obj if "name" in x]
SimplifyPeople(obj) ==
    IF obj.k # "list" THEN Raise("TypeError", "not iterable")
    ELSE LET named == SelectSeq(obj.v, LAMBDA x : "name" \in DOMAIN x.v)
         IN  ListOrRaise([i \in 1..Len(named) |-> GetItem(named[i], "name")])

\* [x[x["type"]]["url"] for x in obj]
SimplifyFiles(obj) ==
    Comprehension(obj,
        [i \in 1..Len(obj.v) |->
            LET x == obj.v[i]
                t == GetItem(x, "type")
            IN  IF IsRaise(t) THEN t ELSE GetItem(GetItem(x, t.v), "url")])

\* " ".join([x["plain_text"].strip() for x in obj])
SimplifyText(obj) ==
    LET runs == Comprehension(obj,
                    [i \in 1..Len(obj.v) |->
                        LET t == GetItem(obj.v[i], "plain_text")
                        IN  IF IsRaise(t) THEN t ELSE Str(Strip(t.v))])
    IN  IF IsRaise(runs) THEN runs
        ELSE Str(Join(" ", [i \in 1..Len(runs.v) |-> runs.v[i].v]))

\* obj[obj["type"]]: the computed value of a formula, or of a rollup that is
\* not an array
SimplifyComputed(obj) ==
    LET t == GetItem(obj, "type")
    IN  IF IsRaise(t) THEN t ELSE GetItem(obj, t.v)

\* an unknown type given up on without an error
UnsupportedTypeIgnored(type_) == None_

\* raise ValueError(f"I don't understand type {type_}")
UnsupportedType(type_) ==
    Raise("ValueError", "I don't understand type " \o type_)

RECURSIVE _simplify_notion_property_value(_)

\* the rollup branch
SimplifyRollupMissingLast(obj) ==
    IF GetItem(obj, "type") = Str("array")
    THEN LET array == GetItem(obj, "array")
         IN  Comprehension(array,
                 [i \in 1..(Len(array.v) - 1) |->
                     _simplify_notion_property_value(array.v[i])])
    ELSE SimplifyComputed(obj)

SimplifyRollup(obj) ==
    IF GetItem(obj, "type") = Str("array")
    THEN LET array == GetItem(obj, "array")
         IN  Comprehension(array,
                 [i \in 1..Len(array.v) |->
                     _simplify_notion_property_value(array.v[i])])
    ELSE SimplifyComputed(obj)

\* the elif chain on type_, below the None check
Dispatch(type_, obj) ==
    CASE type_ \in Passthrough     -> obj
      [] type_ = "relation"        -> SimplifyRelation(obj)
      [] type_ = "checkbox"        -> Bool(Truthy(obj))
      [] type_ = "date"            -> SimplifyDate(obj)
      [] type_ = "created_by"      -> GetItem(obj, "name")
      [] type_ = "last_edited_by"  -> IF obj.k = "dict" THEN GetOrNone(obj, "name")
                                      ELSE Raise("AttributeError", "get")
      [] type_ = "select"          -> GetItem(obj, "name")
      [] type_ = "multi_select"    -> SimplifyMultiSelect(obj)
      [] type_ = "people"          -> SimplifyPeople(obj)
      [] type_ = "files"           -> SimplifyFiles(obj)
      [] type_ = "title"           -> SimplifyText(obj)
      [] type_ = "rich_text"       -> SimplifyText(obj)
      [] type_ = "formula"         -> SimplifyComputed(obj)
      [] type_ = "rollup"          -> SimplifyRollup(obj)
      [] OTHER                     -> UnsupportedType(type_)

\* the normalizer without its None check
SimplifyNoNoneCheck(val) ==
    LET type_ == GetItem(val, "type").v
        obj   == GetItem(val, type_)
    IN  Dispatch(type_, obj)

_simplify_notion_property_value(val) ==
    LET type_ == GetItem(val, "type").v
        obj   == GetItem(val, type_)
    IN  IF obj = None_ THEN obj ELSE Dispatch(type_, obj)

(***************************************************************************)
(* _page_to_simple_dict.  A Python dict whose insertion order matters (a   *)
(* page's properties, the flat record) is the sequence of its items.       *)
(***************************************************************************)
ODict(items) == [k |-> "odict", items |-> items]

Item(key, val) == [key |-> key, val |-> val]

Keys(d) == [i \in 1..Len(d.items) |-> d.items[i].key]

HasKey(d, key) == \E i \in 1..Len(d.items) : d.items[i].key = key

Lookup(d, key) == d.items[CHOOSE i \in 1..Len(d.items) : d.items[i].key = key].val

\* d[key] = val: a key already present keeps its place, a new key goes last
SetItem(d, key, val) ==
    IF HasKey(d, key)
    THEN ODict([i \in 1..Len(d.items) |->
                   IF d.items[i].key = key THEN Item(key, val) ELSE d.items[i]])
    ELSE ODict(Append(d.items, Item(key, val)))

\* date_handlers.get(property, default_date_handler)
ResolveHandler(property, default, handlers) ==
    IF property.v \in DOMAIN handlers.v THEN handlers.v[property.v] ELSE default

\* the branch on the handler of a date property, "mangle" writing the start
\* under both keys
EmitDateMangleStartTwice(rec, property, extracted, handler) ==
    LET first  == Index(extracted, 0)
        second == Index(extracted, 1)
    IN  CASE handler = Str("ignore_end") ->
                IF IsRaise(first) THEN first ELSE SetItem(rec, property, first)
          [] handler = Str("mangle") ->
                IF IsRaise(first) THEN first
                ELSE IF IsRaise(second) THEN second
                ELSE SetItem(SetItem(rec, Str(property.v \o "_start"), first),
                             Str(property.v \o "_end"), first)
          [] handler = Str("multiindex") ->
                IF IsRaise(first) THEN first
                ELSE IF IsRaise(second) THEN second
                ELSE SetItem(SetItem(rec, Tuple(<<property, Str("start")>>), first),
                             Tuple(<<property, Str("end")>>), second)
          [] OTHER -> rec

\* the branch on the handler of a date property; a handler that is none of the
\* three writes nothing
EmitDate(rec, property, extracted, handler) ==
    LET first  == Index(extracted, 0)
        second == Index(extracted, 1)
    IN  CASE handler = Str("ignore_end") ->
                IF IsRaise(first) THEN first ELSE SetItem(rec, property, first)
          [] handler = Str("mangle") ->
                IF IsRaise(first) THEN first
                ELSE IF IsRaise(second) THEN second
                ELSE SetItem(SetItem(rec, Str(property.v \o "_start"), first),
                             Str(property.v \o "_end"), second)
          [] handler = Str("multiindex") ->
                IF IsRaise(first) THEN first
                ELSE IF IsRaise(second) THEN second
                ELSE SetItem(SetItem(rec, Tuple(<<property, Str("start")>>), first),
                             Tuple(<<property, Str("end")>>), second)
          [] OTHER -> rec

\* the body of the loop over page["properties"].items()
EmitProperty(rec, property, val, default, handlers) ==
    LET extracted == _simplify_notion_property_value(val)
    IN  IF IsRaise(extracted) THEN extracted
        ELSE IF GetItem(val, "type") = Str("date")
        THEN EmitDate(rec, property, extracted,
                      ResolveHandler(property, default, handlers))
        ELSE SetItem(rec, property, extracted)

\* (CHOOSE r \in {F(x) : x \in {e}} : TRUE is F(e) with e evaluated once.)
RECURSIVE FlattenLoop(_, _, _, _, _)
FlattenLoop(props, i, rec, default, handlers) ==
    IF i > Len(props.items) THEN rec
    ELSE CHOOSE r \in
            {IF IsRaise(next) THEN next
             ELSE FlattenLoop(props, i + 1, next, default, handlers) :
                next \in {EmitProperty(rec, props.items[i].key, props.items[i].val,
                                       default, handlers)}} : TRUE

\* the four keys every record starts with
ReservedRecord(pg) ==
    ODict(<<Item(Str("_notion_id"), pg.v.id),
            Item(Str("_created_time"), Timestamp(pg.v.created_time)),
            Item(Str("_last_edited_time"), Timestamp(pg.v.last_edited_time)),
            Item(Str("_notion_url"), pg.v.url)>>)

_page_to_simple_dict(pg, default, handlers) ==
    LET date_handlers_ == IF handlers = None_ THEN Dict(<<>>) ELSE handlers
    IN  FlattenLoop(pg.v.properties, 1, ReservedRecord(pg), default, date_handlers_)

(***************************************************************************)
(* _user_to_simple_dict                                                    *)
(***************************************************************************)
_user_to_simple_dict(user) ==
    LET rec == ODict(<<Item(Str("notion_id"), GetItem(user, "id")),
                       Item(Str("type"), GetItem(user, "type")),
                       Item(Str("name"), GetItem(user, "name")),
                       Item(Str("avatar_url"), GetItem(user, "avatar_url"))>>)
    IN  IF \E i \in 1..4 : IsRaise(rec.items[i].val)
        THEN rec.items[CHOOSE i \in 1..4 :
                          /\ IsRaise(rec.items[i].val)
                          /\ \A j \in 1..(i - 1) : ~IsRaise(rec.items[j].val)].val
        ELSE IF GetItem(user, "type") = Str("person")
        THEN LET email == GetItem(GetItem(user, "person"), "email")
             IN  IF IsRaise(email) THEN email ELSE SetItem(rec, Str("email"), email)
        ELSE rec

(***************************************************************************)
(* pd.DataFrame(records): the columns are the keys of the records in the   *)
(* order they are first seen, a record without a key has the missing-value *)
(* marker in that column.  A record that raises while the records are read *)
(* ends the construction with that error.                                  *)
(***************************************************************************)
NaN == [k |-> "nan"]

RECURSIVE Concat(_)
Concat(lists) ==
    IF Len(lists) = 0 THEN <<>>
    ELSE Head(lists) \o Concat(Tail(lists))

\* the keys of a sequence, each once, in the order they are first seen
FirstSeenOrder(flat) ==
    CHOOSE cols \in
        {[c \in 1..Cardinality(kept) |->
             flat[CHOOSE p \in kept : Cardinality({q \in kept : q < p}) = c - 1]] :
            kept \in {{p \in 1..Len(flat) : \A q \in 1..(p - 1) : flat[q] # flat[p]}}} :
        TRUE

\* the columns of the records: every key of every record, record by record
ColumnsOf(records) ==
    CHOOSE cols \in
        {FirstSeenOrder(flat) :
            flat \in {Concat([n \in 1..Len(records) |-> Keys(records[n])])}} : TRUE

Frame(records, cols) ==
    [k |-> "DataFrame",
     columns |-> cols,
     rows |-> [r \in 1..Len(records) |->
                  [c \in 1..Len(cols) |->
                      IF HasKey(records[r], cols[c])
                      THEN Lookup(records[r], cols[c])
                      ELSE NaN]]]

DataFrame(records) ==
    IF \E i \in 1..Len(records) : IsRaise(records[i])
    THEN ListOrRaise(records)
    ELSE CHOOSE df \in {Frame(records, cols) : cols \in {ColumnsOf(records)}} : TRUE

IsTuple(col) == col.k = "tuple"

\* the promotion decided by looking at the first record alone
PromoteIfFirstRecordHasTuple(df) ==
    IF /\ Len(df.rows) > 0
       /\ \E c \in 1..Len(df.columns) :
             IsTuple(df.columns[c]) /\ df.rows[1][c] # NaN
    THEN [df EXCEPT !.columns =
             [c \in 1..Len(df.columns) |->
                 IF IsTuple(df.columns[c]) THEN df.columns[c]
                 ELSE Tuple(<<df.columns[c], Str("")>>)]]
    ELSE df

\* if any column is a tuple, every column becomes one: col -> (col, "")
PromoteColumns(df) ==
    IF \E c \in 1..Len(df.columns) : IsTuple(df.columns[c])
    THEN [df EXCEPT !.columns =
             [c \in 1..Len(df.columns) |->
                 IF IsTuple(df.columns[c]) THEN df.columns[c]
                 ELSE Tuple(<<df.columns[c], Str("")>>)]]
    ELSE df

\* database_to_dataframe once every page is collected
DatabaseTable(pages, default, handlers) ==
    CHOOSE out \in
        {IF IsRaise(df) THEN df ELSE PromoteColumns(df) :
            df \in {DataFrame(records) :
                       records \in {[i \in 1..Len(pages.v) |->
                           _page_to_simple_dict(pages.v[i], default, handlers)]}}} : TRUE

\* users_to_dataframe once every user is collected
UsersTable(users) ==
    CHOOSE df \in
        {DataFrame(records) :
            records \in {[i \in 1..Len(users.v) |->
                             _user_to_simple_dict(users.v[i])]}} : TRUE

(***************************************************************************)
(* The property values the normalizer is applied to.                       *)
(***************************************************************************)
DateStrings == {"2021-03-04", "2022-11-30"}

DatePayloads ==
    {Dict([start |-> Str(a), end |-> e]) :
        a \in DateStrings, e \in {None_} \cup {Str(b) : b \in DateStrings}}

\* tags the code has no branch for: Notion property types added later, and the
\* tags Notion gives to formula results
UnsupportedTypes == {"status", "unique_id", "string", "boolean"}

AllTypes == SupportedTypes \cup UnsupportedTypes

User(name) == Dict([object |-> Str("user"), id |-> Str("u1"), name |-> Str(name)])
NamelessUser == Dict([object |-> Str("user"), id |-> Str("u2")])
TextRun(s) == Dict([type |-> Str("text"), plain_text |-> Str(s)])

LeafPayloads(t) ==
    CASE t \in {"url", "email", "phone_number"} -> {Str("a@b.org")}
      [] t = "number" -> {Num(0), Num(7)}
      [] t \in {"created_time", "last_edited_time"} -> {Str("2021-03-04")}
      [] t = "relation" ->
            {List(<<>>), List(<<Dict([id |-> Str("p1")]), Dict([id |-> Str("p2")])>>)}
      [] t = "checkbox" -> {Bool(TRUE), Bool(FALSE)}
      [] t = "date" -> DatePayloads
      [] t = "created_by" -> {User("Ann"), NamelessUser}
      [] t = "last_edited_by" -> {User("Ann"), NamelessUser}
      [] t = "select" -> {Dict([id |-> Str("s1"), name |-> Str("red")])}
      [] t = "multi_select" ->
            {List(<<>>), List(<<Dict([name |-> Str("red")]), Dict([name |-> Str("blue")])>>)}
      [] t = "people" -> {List(<<User("Ann"), NamelessUser, User("Bob")>>)}
      [] t = "files" ->
            {List(<<Dict([type |-> Str("external"), name |-> Str("f"),
                          external |-> Dict([url |-> Str("http://f")])]),
                    Dict([type |-> Str("file"), name |-> Str("g"),
                          file |-> Dict([url |-> Str("http://g")])])>>)}
      [] t \in {"title", "rich_text"} ->
            {List(<<>>), List(<<TextRun(" a "), TextRun("b\t")>>)}
      [] t = "status" -> {Dict([name |-> Str("Done")])}
      [] t = "unique_id" -> {Dict([number |-> Num(7)])}
      [] t = "string" -> {Str("x")}
      [] t = "boolean" -> {Bool(TRUE)}
      [] OTHER -> {}

\* every tag with each of its payloads, and with a null payload
LeafProps ==
    UNION {{Prop(t, p) : p \in LeafPayloads(t) \cup {None_}} :
              t \in AllTypes \ {"formula", "rollup"}}

\* the type-tagged elements of a rollup array
ArrayElems ==
    {Prop("date", Dict([start |-> Str("2021-03-04"), end |-> None_])),
     Prop("date", Dict([start |-> Str("2021-03-04"), end |-> Str("2022-11-30")])),
     Prop("number", Num(7)),
     Prop("date", None_),
     Prop("status", Dict([name |-> Str("Done")]))}

SeqsUpTo(S, n) == UNION {[1..m -> S] : m \in 0..n}

\* the computed (type tag, payload) pairs a formula or a rollup carries: the
\* tags Notion gives to computed values, and checkbox
ComputedProps ==
    {p \in LeafProps :
        p.v["type"].v \in {"string", "number", "boolean", "date", "checkbox"}}

FormulaProps ==
    {Prop("formula", inner) : inner \in ComputedProps} \cup {Prop("formula", None_)}

RollupProps ==
    {Prop("rollup", Dict(a.v @@ [function |-> Str("show_original")])) :
        a \in {Prop("array", List(es)) : es \in SeqsUpTo(ArrayElems, MaxArray)}}
    \cup {Prop("rollup", Dict(inner.v @@ [function |-> Str("max")])) :
              inner \in ComputedProps}
    \cup {Prop("rollup", None_)}

Values == LeafProps \cup FormulaProps \cup RollupProps

TypeOf(val) == val.v["type"].v
PayloadOf(val) == val.v[TypeOf(val)]

(***************************************************************************)
(* One call of the normalizer.                                             *)
(***************************************************************************)
Idle == [k |-> "idle"]

NormIdle == value = Idle /\ ret = Idle
FlatIdle ==
    /\ page = Idle /\ handler_default = Idle /\ handler_map = Idle /\ record = Idle
RunIdle ==
    /\ fn = "" /\ pc = "idle" /\ schema = "" /\ source = <<>>
    /\ default_date_handler = Idle /\ date_handlers = Idle
    /\ response = Idle /\ results = Idle /\ fetches = 0 /\ outcome = Idle

InitNorm ==
    /\ value \in Values
    /\ ret = Pending
    /\ FlatIdle /\ RunIdle

Normalize ==
    /\ ret = Pending
    /\ ret' = _simplify_notion_property_value(value)
    /\ UNCHANGED <<value, flatVars, runVars>>

NextNorm == Normalize

SpecNorm == InitNorm /\ [][NextNorm]_vars

(***************************************************************************)
(* Claims about the normalizer (checked under SpecNorm).                   *)
(***************************************************************************)
Returned == ret # Pending /\ ret # Idle

\* the computed value a formula, or a rollup that is not an array, wraps
Wraps(val) ==
    /\ TypeOf(val) \in {"formula", "rollup"}
    /\ PayloadOf(val) # None_
    /\ TypeOf(PayloadOf(val)) # "array"

IsArrayRollup(val) ==
    /\ TypeOf(val) = "rollup"
    /\ PayloadOf(val) # None_
    /\ TypeOf(PayloadOf(val)) = "array"

\* C4: a formula, or a rollup that is not an array, normalizes to exactly what
\* the normalizer returns for the inner computed (type tag, payload) pair, for
\* every supported inner tag.
C4_WrappingTransparent ==
    (Returned /\ Wraps(value) /\ TypeOf(PayloadOf(value)) \in SupportedTypes)
        => ret = _simplify_notion_property_value(PayloadOf(value))

\* C5: for every supported type tag, a null payload normalizes to null and
\* nothing is raised, also for the tags whose own branch could not handle None.
C5_NullPayload ==
    (Returned /\ TypeOf(value) \in SupportedTypes /\ PayloadOf(value) = None_)
        => ret = None_

C5_Witness ==
    /\ Returned
    /\ TypeOf(value) = "relation"
    /\ PayloadOf(value) = None_
    /\ ret = None_

NamesTag(r, t) ==
    r = Raise("ValueError", "I don't understand type " \o t)

\* C8 as stated: an unsupported type tag always fails with the error that
\* names the tag, and never returns a value.
C8_UnsupportedAlwaysRaises ==
    (Returned /\ TypeOf(value) \notin SupportedTypes)
        => NamesTag(ret, TypeOf(value))

\* C8 amended: an unsupported type tag with a payload that is not null fails
\* with the error that names the tag; with a null payload the call returns null.
C8_UnsupportedRaisesUnlessNull ==
    (Returned /\ TypeOf(value) \notin SupportedTypes)
        => IF PayloadOf(value) = None_
           THEN ret = None_
           ELSE NamesTag(ret, TypeOf(value))

C8_Witness ==
    /\ Returned
    /\ TypeOf(value) = "status"
    /\ PayloadOf(value) # None_
    /\ ret.k = "raise" /\ ret.exc = "ValueError"

\* C9: an array rollup normalizes to a list of the array's length whose i-th
\* entry is the normalizer applied to the i-th element under the element's own
\* tag (a date element gives a (start, end) pair); an element the normalizer
\* raises on makes the whole call raise that error.
C9_RollupArray ==
    (Returned /\ IsArrayRollup(value)) =>
        LET es   == PayloadOf(PayloadOf(value)).v
            each == [i \in 1..Len(es) |-> _simplify_notion_property_value(es[i])]
            bad  == {i \in 1..Len(es) : IsRaise(each[i])}
        IN  IF bad = {}
            THEN /\ ret.k = "list"
                 /\ Len(ret.v) = Len(es)
                 /\ \A i \in 1..Len(es) :
                      /\ ret.v[i] = each[i]
                      /\ (TypeOf(es[i]) = "date" /\ PayloadOf(es[i]) # None_) =>
                            /\ ret.v[i].k = "tuple"
                            /\ Len(ret.v[i].v) = 2
                            /\ ret.v[i].v[1].k = "ts"
                            /\ ret.v[i].v[2].k \in {"ts", "nat"}
            ELSE \E i \in bad : ret = each[i] /\ \A j \in bad : i <= j

C9_Witness ==
    /\ Returned
    /\ IsArrayRollup(value)
    /\ Len(PayloadOf(PayloadOf(value)).v) = 3
    /\ \A i \in 1..3 :
          /\ TypeOf(PayloadOf(PayloadOf(value)).v[i]) = "date"
          /\ PayloadOf(PayloadOf(value)).v[i] # Prop("date", None_)
    /\ ret.k = "list" /\ Len(ret.v) = 3
    /\ \A i \in 1..3 : ret.v[i].k = "tuple"

(***************************************************************************)
(* One call of _page_to_simple_dict.                                       *)
(***************************************************************************)
PropNames == {"d", "e", "d_start"}

Handlers == {"ignore_end", "mangle", "multiindex"}

\* the three handlers and a string that is none of them
HandlerStrings == Handlers \cup {"both"}

\* per-name handlers: None (the default argument), none given, or one for "d"
HandlerMaps ==
    {None_, Dict(<<>>)} \cup {Dict("d" :> Str(h)) : h \in HandlerStrings}

FlatValues ==
    {Prop("date", Dict([start |-> Str("2021-03-04"), end |-> Str("2022-11-30")])),
     Prop("date", Dict([start |-> Str("2022-11-30"), end |-> None_])),
     Prop("date", None_),
     Prop("number", Num(7)),
     Prop("title", List(<<TextRun(" a "), TextRun("b\t")>>)),
     Prop("status", Dict([name |-> Str("Done")]))}

\* sequences over S of length at most n with no element twice
DistinctSeqs(S, n) ==
    {q \in SeqsUpTo(S, n) : \A i, j \in 1..Len(q) : i # j => q[i] # q[j]}

PropertyMaps(vals, n) ==
    UNION {{ODict([i \in 1..Len(names) |-> Item(Str(names[i]), vs[i])]) :
               vs \in [1..Len(names) -> vals]} :
           names \in DistinctSeqs(PropNames, n)}

Page(id, props) ==
    Dict([object |-> Str("page"), id |-> Str(id),
          created_time |-> Str("2021-03-04"),
          last_edited_time |-> Str("2022-11-30"),
          url |-> Str("https://notion.so/" \o id),
          properties |-> props])

InitFlat ==
    /\ page \in {Page("p1", props) : props \in PropertyMaps(FlatValues, MaxProps)}
    /\ handler_default \in {Str(h) : h \in HandlerStrings}
    /\ handler_map \in HandlerMaps
    /\ record = Pending
    /\ NormIdle /\ RunIdle

Flatten ==
    /\ record = Pending
    /\ record' = _page_to_simple_dict(page, handler_default, handler_map)
    /\ UNCHANGED <<page, handler_default, handler_map, normVars, runVars>>

NextFlat == Flatten

SpecFlat == InitFlat /\ [][NextFlat]_vars

(***************************************************************************)
(* Claims about the flattener (checked under SpecFlat).                    *)
(***************************************************************************)
Flattened == record # Pending /\ record # Idle

PropsOf(pg) == pg.v.properties.items

HandlerFor(name) ==
    IF handler_map # None_ /\ name.v \in DOMAIN handler_map.v
    THEN handler_map.v[name.v]
    ELSE handler_default

IsDate(val) == TypeOf(val) = "date"

\* what the claim says one property writes: a sequence of (key, value) items
ClaimedItems(name, val) ==
    LET T == _simplify_notion_property_value(val)
    IN  IF ~IsDate(val) THEN <<Item(name, T)>>
        ELSE CASE HandlerFor(name) = Str("ignore_end") ->
                    <<Item(name, T.v[1])>>
               [] HandlerFor(name) = Str("mangle") ->
                    <<Item(Str(name.v \o "_start"), T.v[1]),
                      Item(Str(name.v \o "_end"), T.v[2])>>
               [] HandlerFor(name) = Str("multiindex") ->
                    <<Item(Tuple(<<name, Str("start")>>), T.v[1]),
                      Item(Tuple(<<name, Str("end")>>), T.v[2])>>

RECURSIVE AssignAll(_, _)
AssignAll(d, items) ==
    IF Len(items) = 0 THEN d
    ELSE AssignAll(SetItem(d, Head(items).key, Head(items).val), Tail(items))

RECURSIVE ClaimedRecord(_, _, _)
ClaimedRecord(d, props, i) ==
    IF i > Len(props) THEN d
    ELSE ClaimedRecord(AssignAll(d, ClaimedItems(props[i].key, props[i].val)),
                       props, i + 1)

\* every property normalizes, and every date property has a (start, end) value
\* and one of the three handlers
C6_Covers(pg) ==
    \A i \in 1..Len(PropsOf(pg)) :
        LET name == PropsOf(pg)[i].key
            val  == PropsOf(pg)[i].val
        IN  /\ ~IsRaise(_simplify_notion_property_value(val))
            /\ IsDate(val) =>
                  /\ PayloadOf(val) # None_
                  /\ HandlerFor(name).v \in Handlers

\* the keys written by different properties are distinct (no property of the
\* model is named like a reserved key)
NoCollision(pg) ==
    LET written == [i \in 1..Len(PropsOf(pg)) |->
                       {it.key : it \in
                           {ClaimedItems(PropsOf(pg)[i].key, PropsOf(pg)[i].val)[n] :
                              n \in 1..Len(ClaimedItems(PropsOf(pg)[i].key,
                                                        PropsOf(pg)[i].val))}}]
    IN  \A i, j \in 1..Len(PropsOf(pg)) : i # j => written[i] \cap written[j] = {}

\* C6: a date property d = (T1, T2) writes d -> T1 under ignore_end, d_start ->
\* T1 and d_end -> T2 under mangle, (d, "start") -> T1 and (d, "end") -> T2
\* under multiindex, the handler being the per-name one if given, else the
\* default; any other property writes its normalized value under its own name.
\* The record is the four reserved keys followed by exactly these writes, in
\* the order of the properties; where no two writes share a key, each key holds
\* the value written.
C6_DatePolicy ==
    (Flattened /\ C6_Covers(page)) =>
        /\ record = ClaimedRecord(ReservedRecord(page), PropsOf(page), 1)
        /\ NoCollision(page) =>
              /\ Len(record.items) =
                    4 + Len(PropsOf(page))
                      + Cardinality({i \in 1..Len(PropsOf(page)) :
                            /\ IsDate(PropsOf(page)[i].val)
                            /\ HandlerFor(PropsOf(page)[i].key) # Str("ignore_end")})
              /\ \A i \in 1..Len(PropsOf(page)) :
                    LET its == ClaimedItems(PropsOf(page)[i].key, PropsOf(page)[i].val)
                    IN  \A n \in 1..Len(its) :
                            /\ HasKey(record, its[n].key)
                            /\ Lookup(record, its[n].key) = its[n].val

\* a date property d with start and end, under mangle given for d by name while
\* the default is another handler, beside a property that is not a date
C6_Witness ==
    /\ Flattened
    /\ C6_Covers(page)
    /\ NoCollision(page)
    /\ handler_default = Str("multiindex")
    /\ handler_map = Dict("d" :> Str("mangle"))
    /\ Len(PropsOf(page)) = 2
    /\ PropsOf(page)[1] = Item(Str("d"),
          Prop("date", Dict([start |-> Str("2021-03-04"), end |-> Str("2022-11-30")])))
    /\ PropsOf(page)[2] = Item(Str("e"), Prop("number", Num(7)))
    /\ Lookup(record, Str("d_start")) = [k |-> "ts", year |-> 2021, month |-> 3, day |-> 4]
    /\ Lookup(record, Str("d_end")) = [k |-> "ts", year |-> 2022, month |-> 11, day |-> 30]
    /\ Lookup(record, Str("e")) = Num(7)
    /\ ~HasKey(record, Str("d"))

\* C10: a page with a date property whose payload is null flattens without
\* raising under each of the three handlers, the cell(s) of that property
\* holding null.
C10_NullDateAbsorbed ==
    (/\ Flattened
     /\ \A i \in 1..Len(PropsOf(page)) :
           /\ PropsOf(page)[i].val \in {Prop("date", None_), Prop("number", Num(7))}
           /\ HandlerFor(PropsOf(page)[i].key).v \in Handlers)
        => /\ ~IsRaise(record)
           /\ \A i \in 1..Len(PropsOf(page)) :
                 PropsOf(page)[i].val = Prop("date", None_) =>
                    \E n \in 1..Len(record.items) :
                        /\ record.items[n].val = None_
                        /\ record.items[n].key \in
                              {PropsOf(page)[i].key,
                               Str(PropsOf(page)[i].key.v \o "_start"),
                               Tuple(<<PropsOf(page)[i].key, Str("start")>>)}

(***************************************************************************)
(* The paged source behind notion_client.databases.query and               *)
(* notion_client.users.list.  Response number i holds items i.1, i.2, ...; *)
(* its next_cursor names response i + 1.  A call may also raise.           *)
(***************************************************************************)
Schemas == {"dated", "plain", "mixed", "nulldate", "status"}

Ordinal(n) ==
    CASE n = 0 -> "0" [] n = 1 -> "1" [] n = 2 -> "2" [] n = 3 -> "3" [] n = 4 -> "4"
      [] n = 5 -> "5" [] n = 6 -> "6" [] n = 7 -> "7" [] n = 8 -> "8" [] OTHER -> "9"

DateD == Item(Str("d"),
    Prop("date", Dict([start |-> Str("2021-03-04"), end |-> Str("2022-11-30")])))
NullD == Item(Str("d"), Prop("date", None_))
NumberE == Item(Str("e"), Prop("number", Num(7)))
StatusS == Item(Str("s"), Prop("status", Dict([name |-> Str("Done")])))

\* item j of response i of a database
PageAt(sch, i, j) ==
    Page(Ordinal(i) \o "." \o Ordinal(j),
         ODict(CASE sch = "dated" -> <<DateD, NumberE>>
                 [] sch = "plain" -> <<NumberE>>
                 [] sch = "mixed" -> IF j = 1 THEN <<NumberE>> ELSE <<NumberE, DateD>>
                 [] sch = "nulldate" -> IF j = 1 THEN <<NullD, NumberE>> ELSE <<DateD, NumberE>>
                 [] sch = "status" -> IF j = 1 THEN <<NumberE, StatusS>> ELSE <<NumberE>>))

\* item j of response i of the users of a workspace
UserAt(i, j) ==
    LET id == Ordinal(i) \o "." \o Ordinal(j)
    IN  IF j = 1
        THEN Dict([object |-> Str("user"), id |-> Str(id), type |-> Str("person"),
                   name |-> Str("Ann"), avatar_url |-> None_,
                   person |-> Dict([email |-> Str("ann@b.org")])])
        ELSE Dict([object |-> Str("user"), id |-> Str(id), type |-> Str("bot"),
                   name |-> Str("Bot"), avatar_url |-> None_, bot |-> Dict(<<>>)])

FetchErrors ==
    {Raise("APIResponseError", "rate_limited"), Raise("RequestTimeoutError", "timed out")}

\* the number of the response a cursor names; no cursor names the first
CursorIndex(cursor) == IF cursor = None_ THEN 1 ELSE cursor.v

ListResponse(items, more, i) ==
    Dict([object |-> Str("list"),
          results |-> List(items),
          has_more |-> Bool(more),
          next_cursor |-> IF more THEN Num(i + 1) ELSE None_])

\* what a call with this cursor may give back
Served(f, sch, cursor) ==
    LET i == CursorIndex(cursor)
    IN  {ListResponse([j \in 1..size |->
                          IF f = "users_to_dataframe" THEN UserAt(i, j)
                          ELSE PageAt(sch, i, j)],
                      more, i) :
            size \in 0..MaxPageSize,
            more \in {b \in BOOLEAN : b => i < MaxPages}}
        \cup FetchErrors

(***************************************************************************)
(* database_to_dataframe and users_to_dataframe.                           *)
(***************************************************************************)
\* results = response["results"]
FirstResults(resp) == GetItem(resp, "results")

\* results += response["results"], the earlier results forgotten
AccumulateOverwrites(acc, resp) == GetItem(resp, "results")

\* results += response["results"]
Accumulate(acc, resp) == List(acc.v \o GetItem(resp, "results").v)

\* start_cursor=response["next_cursor"]
StartCursor(resp) == GetItem(resp, "next_cursor")

\* the table returned once the last response is in
Finish(f, acc, default, handlers) ==
    IF f = "users_to_dataframe" THEN UsersTable(acc)
    ELSE DatabaseTable(acc, default, handlers)

\* a raising call answered by the table of what was collected before it
AfterCallKeepsPartial(f, resp, prev, acc, default, handlers) ==
    IF IsRaise(resp)
    THEN LET out == IF prev = Idle THEN Finish(f, List(<<>>), default, handlers)
                    ELSE Finish(f, prev, default, handlers)
         IN  [pc |-> "done", outcome |-> out, response |-> Idle, results |-> prev]
    ELSE IF GetItem(resp, "has_more").v
    THEN [pc |-> "paging", outcome |-> Pending, response |-> resp, results |-> acc]
    ELSE CHOOSE after \in
            {[pc |-> IF IsRaise(out) THEN "raised" ELSE "done",
              outcome |-> out, response |-> resp, results |-> acc] :
                out \in {Finish(f, acc, default, handlers)}} : TRUE

\* where the function stands after a call of the client: a raised error leaves
\* the function at once, has_more sends it round the loop, and the last
\* response is followed by the rest of the function body
AfterCall(f, resp, prev, acc, default, handlers) ==
    IF IsRaise(resp)
    THEN [pc |-> "raised", outcome |-> resp, response |-> Idle, results |-> prev]
    ELSE IF GetItem(resp, "has_more").v
    THEN [pc |-> "paging", outcome |-> Pending, response |-> resp, results |-> acc]
    ELSE CHOOSE after \in
            {[pc |-> IF IsRaise(out) THEN "raised" ELSE "done",
              outcome |-> out, response |-> resp, results |-> acc] :
                out \in {Finish(f, acc, default, handlers)}} : TRUE

\* one call of the client with this cursor, and the function up to its next call
Call(cursor, resp, acc) ==
    \E after \in {AfterCall(fn, resp, results, acc,
                             default_date_handler, date_handlers)} :
        /\ fetches' = fetches + 1
        /\ source' = Append(source, [cursor |-> cursor, gave |-> resp])
        /\ pc' = after.pc
        /\ outcome' = after.outcome
        /\ response' = after.response
        /\ results' = after.results
        /\ UNCHANGED <<fn, schema, default_date_handler, date_handlers,
                       normVars, flatVars>>

\* response = notion_client.databases.query(database_id)
DatabaseQuery ==
    /\ fn = "database_to_dataframe"
    /\ pc = "start"
    /\ \E resp \in Served(fn, schema, None_) :
          Call(None_, resp, FirstResults(resp))

\* sleep(0.1); response = notion_client.databases.query(database_id, start_cursor=...)
DatabaseQueryNext ==
    /\ fn = "database_to_dataframe"
    /\ pc = "paging"
    /\ \E resp \in Served(fn, schema, StartCursor(response)) :
          Call(StartCursor(response), resp, Accumulate(results, resp))

\* response = notion_client.users.list()
UsersList ==
    /\ fn = "users_to_dataframe"
    /\ pc = "start"
    /\ \E resp \in Served(fn, schema, None_) :
          Call(None_, resp, FirstResults(resp))

\* sleep(0.1); response = notion_client.users.list(start_cursor=...)
UsersListNext ==
    /\ fn = "users_to_dataframe"
    /\ pc = "paging"
    /\ \E resp \in Served(fn, schema, StartCursor(response)) :
          Call(StartCursor(response), resp, Accumulate(results, resp))

\* the arguments of the calls of database_to_dataframe
RunHandlerMaps ==
    {None_, Dict("d" :> Str("multiindex")), Dict("d" :> Str("both"))}

Init ==
    /\ \/ /\ fn = "database_to_dataframe"
          /\ schema \in Schemas
          /\ default_date_handler \in {Str(h) : h \in HandlerStrings}
          /\ date_handlers \in RunHandlerMaps
       \/ /\ fn = "users_to_dataframe"
          /\ schema = "users"
          /\ default_date_handler = Idle
          /\ date_handlers = Idle
    /\ pc = "start"
    /\ source = <<>>
    /\ response = Idle
    /\ results = Idle
    /\ fetches = 0
    /\ outcome = Pending
    /\ NormIdle /\ FlatIdle

Next == DatabaseQuery \/ DatabaseQueryNext \/ UsersList \/ UsersListNext

Spec == Init /\ [][Next]_vars

(***************************************************************************)
(* Claims about the two extractions (checked under Spec).                  *)
(***************************************************************************)
\* the responses the source has given, the raised calls left out
Given == SelectSeq(source, LAMBDA s : ~IsRaise(s.gave))

ItemsGiven == Concat([i \in 1..Len(Given) |-> Given[i].gave.v.results.v])

\* the last call of the client raised
FetchRaised == Len(source) > 0 /\ IsRaise(source[Len(source)].gave)

\* every page is in: the source's last answer was a response with has_more false
Collected ==
    /\ Len(source) > 0
    /\ ~FetchRaised
    /\ ~source[Len(source)].gave.v.has_more.v

IsTable(x) == x.k = "DataFrame"

\* C1: when the source has answered n >= 1 calls, has_more true on the first
\* n - 1 and false on the n-th, the function made exactly n calls (the first
\* without a cursor, each later one with the cursor of the response before),
\* what it collected is the items of the n responses in arrival order, and a
\* table it returns has as many rows as the responses have items.
C1_Pagination ==
    Collected => \A items \in {ItemsGiven} :
        /\ fetches = Len(source)
        /\ \A i \in 1..Len(source) :
              /\ source[i].gave.v.has_more.v = (i < Len(source))
              /\ source[i].cursor = IF i = 1 THEN None_ ELSE Num(i)
        /\ results = List(items)
        /\ pc \in {"done", "raised"}
        /\ pc = "done" =>
              /\ IsTable(outcome)
              /\ Len(outcome.rows) = Len(items)
              /\ \A r \in 1..Len(outcome.rows) :
                    outcome.rows[r][1] = items[r].v.id
        /\ (fn = "users_to_dataframe" \/ schema \in {"dated", "plain", "mixed"})
              => pc = "done"

\* three responses (has_more true, true, false) of different sizes
C1_Witness ==
    /\ Collected
    /\ pc = "done"
    /\ fetches = 3
    /\ Len(source[1].gave.v.results.v) = 2
    /\ Len(source[2].gave.v.results.v) = 1
    /\ Len(source[3].gave.v.results.v) = 2
    /\ Len(outcome.rows) = 5
    /\ outcome.rows[3][1] = Str("2.1")

ValidHandler(h) == h.k = "str" /\ h.v \in Handlers

\* the date handlers given to database_to_dataframe are all among the three
ValidConfiguration ==
    /\ ValidHandler(default_date_handler)
    /\ date_handlers # None_ =>
          \A name \in DOMAIN date_handlers.v : ValidHandler(date_handlers.v[name])

\* C2: with a default_date_handler, or a per-name handler, that is none of the
\* three, database_to_dataframe fails with InvalidConfiguration before the
\* first call of the client: no call is ever made.
C2_InvalidConfigurationFailsFast ==
    (fn = "database_to_dataframe" /\ ~ValidConfiguration) =>
        /\ fetches = 0
        /\ pc # "start" =>
              (pc = "raised" /\ IsRaise(outcome) /\ outcome.exc = "InvalidConfiguration")

\* C3: when a call of the client raises, the first or a later one, the function
\* ends with exactly that error: it returns no table, makes no further call,
\* and hands out nothing of what it had collected.
C3_FetchErrorPropagates ==
    \A i \in 1..Len(source) :
        IsRaise(source[i].gave) =>
            /\ i = Len(source)
            /\ fetches = i
            /\ pc = "raised"
            /\ outcome = source[i].gave

\* the third call raises after two responses with items
C3_Witness ==
    /\ Len(source) = 3
    /\ Len(source[1].gave.v.results.v) > 0
    /\ Len(source[2].gave.v.results.v) > 0
    /\ source[3].gave = Raise("APIResponseError", "rate_limited")
    /\ fn = "database_to_dataframe"
    /\ pc = "raised"
    /\ outcome = Raise("APIResponseError", "rate_limited")

\* the flat records of the pages collected
FlatRecords ==
    [i \in 1..Len(results.v) |->
        _page_to_simple_dict(results.v[i], default_date_handler, date_handlers)]

KeysOf(recs) ==
    UNION {{recs[i].items[n].key : n \in 1..Len(recs[i].items)} : i \in 1..Len(recs)}

Headers == {outcome.columns[c] : c \in 1..Len(outcome.columns)}

\* C7: in the table database_to_dataframe returns, if any flat record of the
\* batch has a 2-tuple key then every header is a 2-tuple, each plain name
\* being promoted to (name, ""); if none has, every header is a plain name.
\* The whole batch decides, not each record.
C7_UniformHeaders ==
    (fn = "database_to_dataframe" /\ pc = "done") =>
        \A keys \in {KeysOf(recs) : recs \in {FlatRecords}} :
            IF \E key \in keys : IsTuple(key)
            THEN /\ \A h \in Headers : IsTuple(h) /\ Len(h.v) = 2
                 /\ Headers = {IF IsTuple(key) THEN key ELSE Tuple(<<key, Str("")>>) :
                                  key \in keys}
            ELSE /\ \A h \in Headers : ~IsTuple(h)
                 /\ Headers = keys

\* a batch whose first record has only plain properties and whose second has a
\* date under multiindex
C7_Witness ==
    /\ fn = "database_to_dataframe"
    /\ pc = "done"
    /\ schema = "mixed"
    /\ Len(results.v) >= 2
    /\ \A key \in KeysOf(<<FlatRecords[1]>>) : ~IsTuple(key)
    /\ \E key \in KeysOf(<<FlatRecords[2]>>) : IsTuple(key)
    /\ Tuple(<<Str("e"), Str("")>>) \in Headers
    /\ Tuple(<<Str("_notion_id"), Str("")>>) \in Headers
    /\ Tuple(<<Str("d"), Str("start")>>) \in Headers
    /\ \A h \in Headers : IsTuple(h)

====
